---- MODULE Spec2Model ----
(***************************************************************************)
(* pupdate (src/main.rs): the orchestrator `main`, the remote unit         *)
(* `pupdate_remote` (one tokio task per remote) and the local step         *)
(* `pupdate_apt`, as a state machine.                                      *)
(*                                                                         *)
(* The environment's answers (does a process spawn, which exit status,     *)
(* does a file write succeed, what the config file holds) are chosen       *)
(* nondeterministically at the step that asks for them.                    *)
(***************************************************************************)
EXTENDS Integers, Sequences, FiniteSets

\* ------------------------------------------------------------------ bounds
\* longest list of remotes explored
MaxTargets == 3

\* host names the remotes are drawn from (a list may repeat a name)
Names == {"a", "b"}

AllLists == UNION {[1..n -> Names] : n \in 0..MaxTargets}

\* the lists given as remotes: names are opaque, a list and its renaming run
\* alike, so only the lists that start with "a" are explored
TargetLists == {l \in AllLists : Len(l) > 0 => l[1] = "a"}

\* Option<Vec<String>> is a sequence of length 0 (None) or 1 (Some(v))
NoneV == <<>>
SomeV(v) == <<v>>
OptionLists == {NoneV} \cup {SomeV(l) : l \in TargetLists}

\* Option<PathBuf>: only presence matters
OptionPaths == {"None", "Some"}

\* ------------------------------------------------------------------- state
VARIABLES
    pc,          \* position of main
    ret,         \* what main returned: "running", "Ok" or the error kind
    exit_code,   \* process exit status, -1 while the process runs
    args,        \* struct Args
    config,      \* struct Config
    log_dir,     \* the run-scoped log directory of line 131
    remotes,     \* the list of line 144
    tasks,       \* the spawned units, in dispatch order (Vec<JoinHandle>)
    awaited,     \* number of iterations of the loop of line 174 done
    failed,      \* Vec `failed` of line 146
    overall,     \* position of the `overall` progress bar
    summary,     \* what lines 186-195 printed: <<>> or <<record>>
    reversed,    \* history: the units returned in reverse of dispatch order
    files,       \* the files of the log directory
    apt,         \* state of pupdate_apt
    reporter,    \* the calls main made on the progress bars, in order
    perm         \* state of the permutation harness (SpecPerm only)

vars == <<pc, ret, exit_code, args, config, log_dir, remotes, tasks, awaited,
          failed, overall, summary, reversed, files, apt, reporter, perm>>

\* ------------------------------------------------------------------- files
Streams == {"stdout", "stderr"}

LogFiles == (Names \cup {"local"}) \X Streams

NoFile == [exists |-> FALSE, data |-> <<>>]

\* File::create followed by write_all of one captured stream
Written(data) == [exists |-> TRUE, data |-> data]

\* the bytes unit i captured from its ssh process
SshOutput(i) == <<"ssh", i>>

\* the bytes captured from a local command
AptOutput(cmd) == <<"apt", cmd>>

\* ------------------------------------------------------------------- Args
\* lines 17-32. The command line belongs to the environment and Args::parse
\* (line 118) only stores it: each field is drawn at the line of main that
\* first reads it, and holds its clap default until then.
ArgsDefault ==
    [remotes |-> NoneV, local_only |-> FALSE, skip_local |-> FALSE,
     log_dir |-> "None", config |-> "None"]

\* lines 36-43: what a configuration file can hold
Configs == [remotes : TargetLists, log_dir : OptionPaths]

\* line 128: Config::default()
ConfigDefault == [remotes |-> <<>>, log_dir |-> "None"]

AptIdle == [cmds |-> <<>>, outputs |-> <<>>, result |-> "none", report |-> "none"]

PermIdle == [results |-> <<>>, p |-> <<>>, outA |-> <<>>, outB |-> <<>>]

\* process start: nothing read, nothing spawned, no file written
MainInit ==
    /\ pc = "init"
    /\ ret = "running"
    /\ exit_code = -1
    /\ args = ArgsDefault
    /\ config = ConfigDefault
    /\ log_dir = "None"
    /\ remotes = <<>>
    /\ tasks = <<>>
    /\ awaited = 0
    /\ failed = <<>>
    /\ overall = 0
    /\ summary = <<>>
    /\ reversed = TRUE
    /\ files = [f \in LogFiles |-> NoFile]
    /\ apt = AptIdle
    /\ reporter = <<>>

Init ==
    /\ MainInit
    /\ perm = PermIdle

\* ------------------------------------------------------------ main: set-up
\* ConfigErrorPc swallowing the error: main goes on with the default config
ConfigErrorPc_GoOn == "log_dir"

\* line 126: the `?` after read_to_string and from_str returns from main
ConfigErrorPc == "returned"

\* lines 118-129: find, read and parse the configuration
ReadConfig ==
    /\ pc = "init"
    /\ \E given \in OptionPaths, base \in OptionPaths :
        LET config_path == IF given = "Some" THEN "Some" ELSE base
        IN  IF config_path = "Some"
            THEN \/ \E c \in Configs :
                        /\ config' = c
                        /\ pc' = "log_dir"
                        /\ ret' = ret
                 \/ /\ config' = config
                    /\ pc' = ConfigErrorPc
                    /\ ret' = "ConfigError"
            ELSE /\ config' = ConfigDefault
                 /\ pc' = "log_dir"
                 /\ ret' = ret
    /\ UNCHANGED <<exit_code, args, log_dir, remotes, tasks, awaited, failed,
                   overall, summary, reversed, files, apt, perm, reporter>>

\* lines 131-139: the run-scoped log directory; create_dir_all may panic
ResolveLogDir ==
    /\ pc = "log_dir"
    /\ \E given \in OptionPaths :
        LET chosen == IF given = "Some" THEN "Some" ELSE config.log_dir
        IN  IF chosen = "Some"
            THEN \/ /\ log_dir' = "Some"
                    /\ pc' = "mode"
                 \/ /\ log_dir' = "None"
                    /\ pc' = "panicked"
            ELSE /\ log_dir' = "None"
                 /\ pc' = "mode"
    /\ config' = [config EXCEPT !.log_dir = "None"]
    /\ UNCHANGED <<ret, exit_code, args, remotes, tasks, awaited, failed,
                   overall, summary, reversed, files, apt, perm, reporter>>

\* RunsRemotes ignoring the flag: the remote phase always runs
RunsRemotes_Always(local_only) == TRUE

\* line 141: the remote phase runs unless --local-only was given
RunsRemotes(local_only) == ~local_only

\* AfterMode without the test of line 148: the block runs for an empty list
AfterMode_Always(chosen) == "spawn"

\* line 148: the dispatch block is entered only for a non-empty list
AfterMode(chosen) == IF Len(chosen) # 0 THEN "spawn" ELSE "local_gate"

\* lines 141-151: local-only mode, or the list of remotes and its length;
\* unwrap_or moves the chosen list out of args and config; a non-empty list
\* creates the `overall` bar
Mode ==
    /\ pc = "mode"
    /\ \E local_only \in BOOLEAN, given \in OptionLists :
        IF ~RunsRemotes(local_only)
        THEN /\ pc' = "local_gate"
             /\ args' = [args EXCEPT !.local_only = local_only, !.remotes = given]
             /\ UNCHANGED <<config, remotes, reporter>>
        ELSE LET chosen == IF given # NoneV THEN given[1] ELSE config.remotes
             IN  /\ remotes' = chosen
                 /\ args' = [args EXCEPT !.local_only = local_only]
                 /\ config' = [config EXCEPT !.remotes = <<>>]
                 /\ pc' = AfterMode(chosen)
                 /\ reporter' = IF AfterMode(chosen) = "spawn"
                                THEN Append(reporter, "overall_new")
                                ELSE reporter
    /\ UNCHANGED <<ret, exit_code, log_dir, tasks, awaited, failed, overall,
                   summary, reversed, files, apt, perm>>

\* ------------------------------------------------------ main: remote phase
\* a unit as tokio::spawn leaves it: not yet polled
NewUnit(remote) ==
    [remote |-> remote, st |-> "spawned", attempts |-> 0, status |-> "none",
     res |-> "none", events |-> <<>>]

\* DispatchDone after the first unit: the rest of the list is not spawned
DispatchDone_First(ts, rs) == Len(ts) >= 1 \/ Len(ts) = Len(rs)

\* line 159: the dispatch loop ends when `remotes` is exhausted
DispatchDone(ts, rs) == Len(ts) = Len(rs)

\* lines 159-171: one iteration of the dispatch loop: a spinner bar for the
\* remote, then tokio::spawn; nothing is awaited
Spawn ==
    /\ pc = "spawn"
    /\ ~DispatchDone(tasks, remotes)
    /\ tasks' = Append(tasks, NewUnit(remotes[Len(tasks) + 1]))
    /\ reporter' = Append(reporter, "pb_new")
    /\ UNCHANGED <<pc, ret, exit_code, args, config, log_dir, remotes, awaited,
                   failed, overall, summary, reversed, files, apt, perm>>

\* line 172: the dispatch loop is over
Tick ==
    /\ pc = "spawn"
    /\ DispatchDone(tasks, remotes)
    /\ pc' = "await"
    /\ reporter' = Append(reporter, "overall_tick")
    /\ UNCHANGED <<ret, exit_code, args, config, log_dir, remotes, tasks,
                   awaited, failed, overall, summary, reversed, files, apt,
                   perm>>

\* PushFailed without its test: every awaited remote is pushed
PushFailed_Always(f, remote, success) == Append(f, remote)

\* PushFailed inserting at the front instead of pushing at the back
PushFailed_Front(f, remote, success) ==
    IF ~success THEN <<remote>> \o f ELSE f

\* PushFailed keeping a single failure: later ones are dropped
PushFailed_OnlyFirst(f, remote, success) ==
    IF ~success /\ f = <<>> THEN <<remote>> ELSE f

\* lines 176-178: a remote that did not succeed is pushed to `failed`
PushFailed(f, remote, success) ==
    IF ~success THEN Append(f, remote) ELSE f

\* lines 175-178: `task.await??` on a finished unit t, then the push
AwaitStep(f, t) ==
    IF t.res = "Ok"
    THEN [ret |-> "running", failed |-> PushFailed(f, t.remote, t.status = "success")]
    ELSE [ret |-> t.res, failed |-> f]

\* JoinReady for Ok results only: the Err of a unit never reaches main
JoinReady_OkOnly(t) == t.st = "returned" /\ t.res = "Ok"

\* line 175: awaiting a JoinHandle completes when its unit has returned
JoinReady(t) == t.st = "returned"

\* AwaitLoopDone after the first handle: the other units are not awaited
AwaitLoopDone_First(n, ts) == n >= 1 \/ n = Len(ts)

\* line 174: the loop is over when every handle of `tasks` was consumed
AwaitLoopDone(n, ts) == n = Len(ts)

\* lines 174-179: one iteration of the fan-in loop
AwaitTask ==
    /\ pc = "await"
    /\ ~AwaitLoopDone(awaited, tasks)
    /\ JoinReady(tasks[awaited + 1])
    /\ LET r == AwaitStep(failed, tasks[awaited + 1])
       IN  IF r.ret = "running"
           THEN /\ failed' = r.failed
                /\ awaited' = awaited + 1
                /\ UNCHANGED <<pc, ret>>
           ELSE /\ pc' = "returned"
                /\ ret' = r.ret
                /\ UNCHANGED <<failed, awaited>>
    /\ UNCHANGED <<exit_code, args, config, log_dir, remotes, tasks, overall,
                   summary, reversed, files, apt, perm, reporter>>

\* lines 181-196: clear the `overall` bar and print the summary
Summary ==
    /\ pc = "await"
    /\ AwaitLoopDone(awaited, tasks)
    /\ summary' = <<[total |-> Len(remotes),
                     succeeded |-> Len(remotes) - Len(failed),
                     failed |-> failed]>>
    /\ reporter' = Append(reporter, "overall_finish_and_clear")
    /\ pc' = "local_gate"
    /\ UNCHANGED <<ret, exit_code, args, config, log_dir, remotes, tasks,
                   awaited, failed, overall, reversed, files, apt, perm>>

\* ------------------------------------------------------------------- units
\* the tokio runtime polls tasks until the process exits
RuntimeAlive == pc # "exited"

\* UnitAfterSsh without the test of line 63: the unit always logs
UnitAfterSsh_LogAlways(status, ld) == "log_stdout"

\* UnitAfterSsh with a retry: a non-zero exit sends the unit back to its start
UnitAfterSsh_Retry(status, ld) ==
    IF status = "nonzero" THEN "spawned"
    ELSE IF ld = "Some" THEN "log_stdout" ELSE "finish"

\* lines 62-63: with a log directory the unit next awaits File::create,
\* without one it runs on to its return
UnitAfterSsh(status, ld) ==
    IF ld = "Some" THEN "log_stdout" ELSE "finish"

\* TRUE as long as the units have returned in reverse of dispatch order
StillReversed(i) ==
    /\ reversed
    /\ Len(tasks) = Len(remotes)
    /\ \A j \in 1..Len(tasks) :
          (j < i => tasks[j].st # "returned") /\ (j > i => tasks[j].st = "returned")

\* a unit returns `res`: its JoinHandle becomes ready
UnitReturn(i, status, res, evs) ==
    /\ tasks' = [tasks EXCEPT ![i] =
                    [@ EXCEPT !.st = "returned", !.status = status, !.res = res,
                              !.events = @ \o evs]]
    /\ reversed' = StillReversed(i)

\* lines 54-59: the started message, the start timestamp, the spawn of ssh
StartEvents == <<"set_message", "start_ts", "ssh_spawn">>

\* SshDoneEvents with the end timestamp missing here
SshDoneEvents_NoEnd == <<"ssh_output">>

\* lines 60-62: the output is there, the end timestamp is taken at once
SshDoneEvents == <<"ssh_output", "end_ts">>

\* FinishEvents with `overall` advanced before the unit's bar is finished
FinishEvents_IncFirst(status) ==
    <<"duration", "inc",
      IF status = "success" THEN "finished_succeeded" ELSE "finished_failed">>

\* lines 69-76: the duration from the two timestamps, the finished message
\* with the verdict, then overall.inc(1)
FinishEvents(status) ==
    <<"duration",
      IF status = "success" THEN "finished_succeeded" ELSE "finished_failed",
      "inc">>

\* OverallInc as a read-modify-write on a stale read of 0
OverallInc_Stale(n) == 1

\* line 76: overall.inc(1) is an atomic add on the bar's position
OverallInc(n) == n + 1

\* LogFileOf with both streams going to the stdout file
LogFileOf_StdoutOnly(remote, stream) == <<remote, "stdout">>

\* lines 64 and 66: log_dir.join("{remote}.{stream}.log")
LogFileOf(remote, stream) == <<remote, stream>>

\* lines 69-77: finish the unit's bar, advance `overall`, return Ok
UnitFinish(i, status, evs) ==
    /\ overall' = OverallInc(overall)
    /\ UnitReturn(i, status, "Ok", evs \o FinishEvents(status))

\* lines 54-60: set_message, then spawn ssh; `?` returns the spawn error
UnitStart(i) ==
    /\ RuntimeAlive
    /\ tasks[i].st = "spawned"
    /\ \/ /\ tasks' = [tasks EXCEPT ![i] =
                          [@ EXCEPT !.st = "ssh", !.attempts = @ + 1,
                                    !.events = @ \o StartEvents]]
          /\ UNCHANGED reversed
       \/ /\ tasks' = [tasks EXCEPT ![i] =
                          [@ EXCEPT !.st = "returned", !.attempts = @ + 1,
                                    !.res = "TransportError",
                                    !.events = @ \o StartEvents]]
          /\ reversed' = StillReversed(i)
    /\ UNCHANGED <<pc, ret, exit_code, args, config, log_dir, remotes, awaited,
                   failed, overall, summary, files, apt, reporter, perm>>

\* lines 60-63 (and 69-77 when there is no log directory): the ssh process
\* ended with some exit status
UnitSshDone(i) ==
    /\ RuntimeAlive
    /\ tasks[i].st = "ssh"
    /\ \E status \in {"success", "nonzero"} :
          IF UnitAfterSsh(status, log_dir) = "finish"
          THEN UnitFinish(i, status, SshDoneEvents)
          ELSE /\ tasks' = [tasks EXCEPT ![i] =
                               [@ EXCEPT !.status = status,
                                         !.st = UnitAfterSsh(status, log_dir),
                                         !.events = @ \o SshDoneEvents]]
               /\ UNCHANGED <<overall, reversed>>
    /\ UNCHANGED <<pc, ret, exit_code, args, config, log_dir, remotes, awaited,
                   failed, summary, files, apt, reporter, perm>>

\* lines 64-65: create <remote>.stdout.log and write the captured stdout;
\* create may fail (no file touched) and write_all may fail (file truncated)
UnitLogStdout(i) ==
    /\ RuntimeAlive
    /\ tasks[i].st = "log_stdout"
    /\ LET f == LogFileOf(tasks[i].remote, "stdout")
       IN  \/ /\ files' = [files EXCEPT ![f] = Written(<<SshOutput(i)>>)]
              /\ tasks' = [tasks EXCEPT ![i] =
                              [@ EXCEPT !.st = "log_stderr",
                                        !.events = Append(@, "log_stdout")]]
              /\ UNCHANGED reversed
           \/ /\ UNCHANGED files
              /\ UnitReturn(i, tasks[i].status, "LogWriteError", <<"log_error">>)
           \/ /\ files' = [files EXCEPT ![f] = Written(<<>>)]
              /\ UnitReturn(i, tasks[i].status, "LogWriteError", <<"log_error">>)
    /\ UNCHANGED <<pc, ret, exit_code, args, config, log_dir, remotes, awaited,
                   failed, overall, summary, apt, reporter, perm>>

\* lines 66-77: create <remote>.stderr.log and write the captured stderr,
\* then run on to the return
UnitLogStderr(i) ==
    /\ RuntimeAlive
    /\ tasks[i].st = "log_stderr"
    /\ LET f == LogFileOf(tasks[i].remote, "stderr")
       IN  \/ /\ files' = [files EXCEPT ![f] = Written(<<SshOutput(i)>>)]
              /\ UnitFinish(i, tasks[i].status, <<"log_stderr">>)
           \/ /\ UNCHANGED <<files, overall>>
              /\ UnitReturn(i, tasks[i].status, "LogWriteError", <<"log_error">>)
           \/ /\ files' = [files EXCEPT ![f] = Written(<<>>)]
              /\ UNCHANGED overall
              /\ UnitReturn(i, tasks[i].status, "LogWriteError", <<"log_error">>)
    /\ UNCHANGED <<pc, ret, exit_code, args, config, log_dir, remotes, awaited,
                   failed, summary, apt, reporter, perm>>

\* ------------------------------------------------------- main: local phase
\* AptAfterUpdate without the short-circuit: the upgrade always follows
AptAfterUpdate_Always(status) == "upgrade"

\* lines 104-106: a failed refresh goes straight to the log, else upgrade
AptAfterUpdate(status) ==
    IF status # "success" THEN "log" ELSE "upgrade"

\* lines 200-203 and 99-103: unless skip_local, spawn `apt-get update`
LocalGate ==
    /\ pc = "local_gate"
    /\ \E skip_local \in BOOLEAN :
        /\ args' = [args EXCEPT !.skip_local = skip_local]
        /\ IF skip_local
           THEN /\ pc' = "returned"
                /\ ret' = "Ok"
                /\ UNCHANGED apt
           ELSE \/ /\ apt' = [apt EXCEPT !.cmds = Append(@, "update")]
                   /\ pc' = "apt_update"
                   /\ UNCHANGED ret
                \/ /\ apt' = [apt EXCEPT !.cmds = Append(@, "update"),
                                         !.result = "Err"]
                   /\ pc' = "returned"
                   /\ ret' = "TransportError"
    /\ UNCHANGED <<exit_code, config, log_dir, remotes, tasks, awaited,
                   failed, overall, summary, reversed, files, perm, reporter>>

\* lines 103-112: `apt-get update` ended; short-circuit or spawn the upgrade
AptUpdateDone ==
    /\ pc = "apt_update"
    /\ \E status \in {"success", "nonzero"} :
        LET outs == <<[cmd |-> "update", status |-> status]>>
        IN  IF AptAfterUpdate(status) = "log"
            THEN /\ apt' = [apt EXCEPT !.outputs = outs]
                 /\ pc' = "apt_log"
                 /\ UNCHANGED ret
            ELSE \/ /\ apt' = [apt EXCEPT !.outputs = outs,
                                          !.cmds = Append(@, "upgrade")]
                    /\ pc' = "apt_upgrade"
                    /\ UNCHANGED ret
                 \/ /\ apt' = [apt EXCEPT !.outputs = outs,
                                          !.cmds = Append(@, "upgrade"),
                                          !.result = "Err"]
                    /\ pc' = "returned"
                    /\ ret' = "TransportError"
    /\ UNCHANGED <<exit_code, args, config, log_dir, remotes, tasks, awaited,
                   failed, overall, summary, reversed, files, perm, reporter>>

\* lines 112-113: `apt-get upgrade -y` ended
AptUpgradeDone ==
    /\ pc = "apt_upgrade"
    /\ \E status \in {"success", "nonzero"} :
          apt' = [apt EXCEPT !.outputs =
                      Append(@, [cmd |-> "upgrade", status |-> status])]
    /\ pc' = "apt_log"
    /\ UNCHANGED <<ret, exit_code, args, config, log_dir, remotes, tasks,
                   awaited, failed, overall, summary, reversed, files, perm, reporter>>

\* the captured streams of the first k outputs, concatenated
AptStreams(outs, k) == [j \in 1..k |-> AptOutput(outs[j].cmd)]

\* lines 91-96: true iff every output has a zero status
AllSucceeded(outs) == \A j \in 1..Len(outs) : outs[j].status = "success"

\* lines 82-97 (fn log): write both local files, then compute the verdict
AptLog ==
    /\ pc = "apt_log"
    /\ LET outs == apt.outputs
           n == Len(outs)
           verdict == IF AllSucceeded(outs) THEN "true" ELSE "false"
       IN  IF log_dir = "Some"
           THEN \/ /\ files' = [files EXCEPT
                                  ![<<"local", "stdout">>] = Written(AptStreams(outs, n)),
                                  ![<<"local", "stderr">>] = Written(AptStreams(outs, n))]
                   /\ apt' = [apt EXCEPT !.result = verdict]
                   /\ pc' = "report"
                   /\ UNCHANGED ret
                \* File::create of local.stdout.log fails
                \/ /\ UNCHANGED files
                   /\ apt' = [apt EXCEPT !.result = "Err"]
                   /\ pc' = "returned"
                   /\ ret' = "LogWriteError"
                \* File::create of local.stderr.log fails
                \/ /\ files' = [files EXCEPT ![<<"local", "stdout">>] = Written(<<>>)]
                   /\ apt' = [apt EXCEPT !.result = "Err"]
                   /\ pc' = "returned"
                   /\ ret' = "LogWriteError"
                \* a write_all fails after k outputs were written to both files
                \/ \E k \in 0..(n - 1), so \in {0, 1} :
                      /\ files' = [files EXCEPT
                                     ![<<"local", "stdout">>] = Written(AptStreams(outs, k + so)),
                                     ![<<"local", "stderr">>] = Written(AptStreams(outs, k))]
                      /\ apt' = [apt EXCEPT !.result = "Err"]
                      /\ pc' = "returned"
                      /\ ret' = "LogWriteError"
           ELSE /\ apt' = [apt EXCEPT !.result = verdict]
                /\ pc' = "report"
                /\ UNCHANGED <<files, ret>>
    /\ UNCHANGED <<exit_code, args, config, log_dir, remotes, tasks, awaited,
                   failed, overall, summary, reversed, perm, reporter>>

\* lines 203-216: print the local verdict and return Ok(())
LocalReport ==
    /\ pc = "report"
    /\ apt' = [apt EXCEPT !.report = IF apt.result = "true" THEN "success"
                                     ELSE "failed"]
    /\ pc' = "returned"
    /\ ret' = "Ok"
    /\ UNCHANGED <<exit_code, args, config, log_dir, remotes, tasks, awaited,
                   failed, overall, summary, reversed, files, perm, reporter>>

\* ------------------------------------------------------------ process exit
\* the exit status the runtime gives: 0 for Ok(()), 1 for Err, 101 for panic
ExitStatus(p, r) ==
    IF p = "panicked" THEN 101 ELSE IF r = "Ok" THEN 0 ELSE 1

\* main has returned (lines 126, 175, 203, 216) or panicked (line 137): the
\* runtime shuts down and drops every unit that has not returned
Exit ==
    /\ pc \in {"returned", "panicked"}
    /\ exit_code' = ExitStatus(pc, ret)
    /\ tasks' = [i \in 1..Len(tasks) |->
                    IF tasks[i].st = "returned" THEN tasks[i]
                    ELSE [tasks[i] EXCEPT !.st = "cancelled"]]
    /\ pc' = "exited"
    /\ UNCHANGED <<ret, args, config, log_dir, remotes, awaited, failed,
                   overall, summary, reversed, files, apt, perm, reporter>>

\* --------------------------------------------------------------------- run
Next ==
    \/ ReadConfig
    \/ ResolveLogDir
    \/ Mode
    \/ Spawn
    \/ Tick
    \/ AwaitTask
    \/ Summary
    \/ LocalGate
    \/ AptUpdateDone
    \/ AptUpgradeDone
    \/ AptLog
    \/ LocalReport
    \/ Exit
    \/ \E i \in 1..Len(tasks) : UnitStart(i)
    \/ \E i \in 1..Len(tasks) : UnitSshDone(i)
    \/ \E i \in 1..Len(tasks) : UnitLogStdout(i)
    \/ \E i \in 1..Len(tasks) : UnitLogStderr(i)

Spec == Init /\ [][Next]_vars

\* the tokio runtime polls main and every spawned unit that is ready, and
\* every ssh and apt-get invocation returns: a step that stays possible is
\* taken
SpecFair == Init /\ [][Next]_vars /\ WF_vars(Next)

\* ------------------------------------------- the fan-in as a pure function
\* lines 174-196 on a list of finished units: the loop from handle n + 1 on,
\* ending with the summary's failed list or with the first error met
RECURSIVE AwaitFrom(_, _, _)
AwaitFrom(ts, n, f) ==
    IF AwaitLoopDone(n, ts)
    THEN [ret |-> "Ok", failed |-> f]
    ELSE LET r == AwaitStep(f, ts[n + 1])
         IN  IF r.ret = "running" THEN AwaitFrom(ts, n + 1, r.failed) ELSE r

\* lines 146 and 174-196: the whole fan-in, `failed` starting empty
AwaitAll(ts) == AwaitFrom(ts, 0, <<>>)

\* the ways a unit can have returned (lines 60, 64-67, 77)
UnitOutcomes ==
    {<<"success", "Ok">>, <<"nonzero", "Ok">>, <<"none", "TransportError">>,
     <<"success", "LogWriteError">>, <<"nonzero", "LogWriteError">>}

FinishedUnits ==
    {[remote |-> x, st |-> "returned", attempts |-> 1, status |-> o[1],
      res |-> o[2], events |-> <<>>] : x \in Names, o \in UnitOutcomes}

FinishedLists == UNION {[1..n -> FinishedUnits] : n \in 0..MaxTargets}

Perms(n) == {q \in [1..n -> 1..n] : \A i, j \in 1..n : i # j => q[i] # q[j]}

\* the list ts in the order q
Permuted(ts, q) == [k \in 1..Len(ts) |-> ts[q[k]]]

\* a list of finished units and a permutation of it
InitPerm ==
    /\ MainInit
    /\ \E ts \in FinishedLists : \E q \in Perms(Len(ts)) :
          perm = [results |-> ts, p |-> q, outA |-> <<>>, outB |-> <<>>]

\* the fan-in over the list as given
PermRunGiven ==
    /\ perm.outA = <<>>
    /\ perm' = [perm EXCEPT !.outA = <<AwaitAll(perm.results)>>]
    /\ UNCHANGED <<pc, ret, exit_code, args, config, log_dir, remotes, tasks,
                   awaited, failed, overall, summary, reversed, files, apt, reporter>>

\* the fan-in over the permuted list
PermRunPermuted ==
    /\ perm.outB = <<>>
    /\ perm' = [perm EXCEPT !.outB = <<AwaitAll(Permuted(perm.results, perm.p))>>]
    /\ UNCHANGED <<pc, ret, exit_code, args, config, log_dir, remotes, tasks,
                   awaited, failed, overall, summary, reversed, files, apt, reporter>>

NextPerm ==
    \/ PermRunGiven
    \/ PermRunPermuted

SpecPerm == InitPerm /\ [][NextPerm]_vars

\* ================================================================== claims
SummaryPrinted == summary # <<>>

Exited == pc = "exited"

InSeq(x, q) == \E k \in 1..Len(q) : q[k] = x

\* number of occurrences of x in the sequence q
Occ(q, x) == Cardinality({k \in 1..Len(q) : q[k] = x})

\* the entries of the target list whose ssh command ended with status s
EntriesWith(s) == {i \in 1..Len(tasks) : tasks[i].status = s}

\* the remotes whose command did not succeed, in dispatch order
FailedInDispatchOrder ==
    LET idx == SelectSeq([i \in 1..Len(tasks) |-> i],
                         LAMBDA i : tasks[i].status # "success")
    IN  [k \in 1..Len(idx) |-> tasks[idx[k]].remote]

\* C1: in the printed summary every entry of the target list is classified
\* exactly once: the succeeded count is the number of entries whose command
\* succeeded, each name occurs in the failed list once per entry of that name
\* whose command did not succeed, and succeeded + len(failed) = len(targets).
C1_EachTargetClassifiedOnce ==
    SummaryPrinted =>
        LET s == summary[1]
        IN  /\ s.total = Len(remotes)
            /\ Len(tasks) = Len(remotes)
            /\ s.succeeded + Len(s.failed) = s.total
            /\ s.succeeded = Cardinality(EntriesWith("success"))
            /\ \A x \in Names :
                  Occ(s.failed, x) =
                      Cardinality({i \in EntriesWith("nonzero") : remotes[i] = x})
            /\ EntriesWith("success") \cup EntriesWith("nonzero") = 1..Len(remotes)

C1_Witness ==
    /\ SummaryPrinted
    /\ Len(remotes) >= 3
    /\ summary[1].succeeded >= 1
    /\ Len(summary[1].failed) >= 2

\* C2: when the run has ended, a target whose ssh process could not be
\* spawned (TransportError) is named in the failed list of a printed summary.
C2_TransportErrorRecorded ==
    \A i \in 1..Len(tasks) :
        (Exited /\ tasks[i].res = "TransportError")
            => (SummaryPrinted /\ InSeq(tasks[i].remote, summary[1].failed))

\* C3: once the remote phase is over (main is past the fan-in loop, or has
\* returned), every dispatched unit has finished, whatever the units' outcomes.
C3_EveryUnitAwaited ==
    (pc \notin {"init", "log_dir", "mode", "spawn", "await"})
        => \A i \in 1..Len(tasks) : tasks[i].st = "returned"

\* C4: a failed log write neither aborts the run nor loses the target's
\* verdict: the run does not end with the log error, and a target whose log
\* write failed is in a printed summary with the verdict of its exit status.
C4_LogWriteErrorKeepsVerdict ==
    Exited =>
        /\ ret # "LogWriteError"
        /\ \A i \in 1..Len(tasks) :
              tasks[i].res = "LogWriteError"
                  => /\ SummaryPrinted
                     /\ tasks[i].status = "nonzero"
                            => InSeq(tasks[i].remote, summary[1].failed)

\* C5: once the set-up is done (configuration read, log directory created),
\* the process ends with status 0 whatever fails for a remote target or for
\* the local update.
C5_ExitZero ==
    (Exited /\ ret # "ConfigError" /\ exit_code # 101) => exit_code = 0

\* C6: if `apt-get update` ends with a non-zero status the upgrade is never
\* invoked and the local outcome is a failure (pupdate_apt gives Ok(false), or
\* the error of a failed log write, and main never reports success); the
\* upgrade is invoked only after the update ended with status zero.
C6_LocalShortCircuit ==
    /\ (Len(apt.outputs) >= 1 /\ apt.outputs[1].status = "nonzero")
          => /\ ~InSeq("upgrade", apt.cmds)
             /\ Len(apt.outputs) = 1
             /\ apt.report # "success"
             /\ pc \in {"report", "returned", "exited"}
                    => /\ apt.result \in {"false", "Err"}
                       /\ apt.result = "Err" => ret = "LogWriteError"
                       /\ (log_dir = "None") => apt.result = "false"
             /\ (pc \in {"returned", "exited"} /\ ret = "Ok")
                    => apt.report = "failed"
    /\ InSeq("upgrade", apt.cmds)
          => /\ Len(apt.outputs) >= 1
             /\ apt.outputs[1].cmd = "update"
             /\ apt.outputs[1].status = "success"
             /\ apt.cmds = <<"update", "upgrade">>

C6_Witness ==
    /\ Exited
    /\ Len(apt.outputs) = 1
    /\ apt.outputs[1].status = "nonzero"
    /\ apt.report = "failed"

\* C7: while a local command is in flight, and ever after one was started,
\* every entry of the target list has been dispatched and every unit has
\* returned.
C7_LocalAfterRemote ==
    (pc \in {"apt_update", "apt_upgrade"} \/ apt.cmds # <<>>)
        => /\ Len(tasks) = Len(remotes)
           /\ awaited = Len(tasks)
           /\ \A i \in 1..Len(tasks) : tasks[i].st = "returned"

C7_Witness ==
    /\ pc = "apt_update"
    /\ Len(tasks) >= 2

\* C8: the printed summary depends on the target list and the units' exit
\* statuses alone, not on the order in which the units finished: the failed
\* list is the list of the remotes whose command did not succeed, in
\* dispatch order, and the succeeded count is the number of the others.
C8_SummaryIndependentOfCompletionOrder ==
    SummaryPrinted =>
        /\ summary[1].failed = FailedInDispatchOrder
        /\ summary[1].succeeded = Len(remotes) - Len(FailedInDispatchOrder)

\* the units finished in reverse of dispatch order and two of them failed
C8_Witness ==
    /\ SummaryPrinted
    /\ reversed
    /\ Len(tasks) >= 3
    /\ summary[1].failed = <<"a", "b">>

\* C10: one unit per entry of the target list (none before its entry, none
\* twice, all of them once the dispatch loop is over), and each unit starts
\* at most one ssh invocation: exactly one once it is past its start, also
\* after a non-zero exit, a spawn error or a log write error.
C10_AttemptedOnce ==
    /\ Len(tasks) <= Len(remotes)
    /\ pc # "spawn" => Len(tasks) = Len(remotes)
    /\ \A i \in 1..Len(tasks) :
          /\ tasks[i].remote = remotes[i]
          /\ tasks[i].attempts <= 1
          /\ tasks[i].st \notin {"spawned", "cancelled"} => tasks[i].attempts = 1
          /\ tasks[i].st = "spawned" => tasks[i].attempts = 0

C10_Witness ==
    /\ Exited
    /\ Len(tasks) >= 2
    /\ \E i, j \in 1..Len(tasks) :
          /\ tasks[i].status = "nonzero" /\ tasks[i].attempts = 1
          /\ tasks[j].res = "TransportError" /\ tasks[j].attempts = 1

\* C9: the fan-in over a target list and over a permutation of it (each
\* target keeping its outcome) either both end without a summary, or give
\* the same failed targets, each the same number of times, and the same
\* number of succeeded targets: only the order of the failed list may differ.
C9_PermutationInvariant ==
    (perm.outA # <<>> /\ perm.outB # <<>>) =>
        LET A == perm.outA[1]
            B == perm.outB[1]
            n == Len(perm.results)
        IN  /\ (A.ret = "Ok") <=> (B.ret = "Ok")
            /\ A.ret = "Ok" =>
                  /\ \A x \in Names : Occ(A.failed, x) = Occ(B.failed, x)
                  /\ {A.failed[k] : k \in 1..Len(A.failed)}
                        = {B.failed[k] : k \in 1..Len(B.failed)}
                  /\ n - Len(A.failed) = n - Len(B.failed)
                  /\ \A x \in Names :
                        Occ(A.failed, x) = Cardinality(
                            {k \in 1..n : /\ perm.results[k].remote = x
                                          /\ perm.results[k].status # "success"})

\* both runs print a summary and the failed lists differ in order only
C9_Witness ==
    /\ perm.outA # <<>>
    /\ perm.outB # <<>>
    /\ perm.outA[1].ret = "Ok"
    /\ perm.outA[1].failed = <<"a", "b">>
    /\ perm.outB[1].failed = <<"b", "a">>
    /\ Len(perm.results) >= 3

\* C11: with an empty list of remotes and --skip-local, main returns Ok right
\* after the test of line 200: no unit was spawned, no progress bar was
\* created or touched, no ssh or apt-get command was started, nothing was
\* printed as a summary and no file was written.
C11_EmptyRunDoesNothing ==
    (args.skip_local /\ remotes = <<>>) =>
        /\ pc \in {"returned", "exited"}
        /\ ret = "Ok"
        /\ Exited => exit_code = 0
        /\ tasks = <<>>
        /\ reporter = <<>>
        /\ overall = 0
        /\ apt = AptIdle
        /\ summary = <<>>
        /\ \A f \in LogFiles : files[f] = NoFile

C11_Witness ==
    /\ Exited
    /\ args.skip_local
    /\ ~args.local_only
    /\ remotes = <<>>

\* C12: as long as no log directory is configured no log file exists, no
\* unit and no local step ends with a log write error, no unit runs a logging
\* step, and the summary and the local verdict are those the exit statuses
\* give (the ones a run with logging and successful writes prints).
C12_NoLogDirNoFiles ==
    (log_dir = "None") =>
        /\ \A f \in LogFiles : files[f] = NoFile
        /\ ret # "LogWriteError"
        /\ \A i \in 1..Len(tasks) :
              /\ tasks[i].res # "LogWriteError"
              /\ tasks[i].st \notin {"log_stdout", "log_stderr"}
              /\ \A k \in 1..Len(tasks[i].events) :
                    tasks[i].events[k] \notin {"log_stdout", "log_stderr", "log_error"}
        /\ SummaryPrinted =>
              /\ summary[1].failed = FailedInDispatchOrder
              /\ summary[1].succeeded = Cardinality(EntriesWith("success"))
        /\ apt.result # "none" =>
              \/ apt.result = "Err" /\ ret = "TransportError"
              \/ apt.result = (IF AllSucceeded(apt.outputs) THEN "true" ELSE "false")

C12_Witness ==
    /\ Exited
    /\ ret = "Ok"
    /\ log_dir = "None"
    /\ SummaryPrinted
    /\ Len(summary[1].failed) >= 1
    /\ summary[1].succeeded >= 1
    /\ apt.report = "success"

\* a run with a log directory that ended with Ok(()): every write succeeded
RunLoggedOk == Exited /\ ret = "Ok" /\ log_dir = "Some"

\* every unit's two files hold what that unit captured
RemoteLogsHeld ==
    \A i \in 1..Len(tasks) : \A stream \in Streams :
        files[<<tasks[i].remote, stream>>] = Written(<<SshOutput(i)>>)

\* the local files hold the outputs of the local commands attempted, in order
LocalLogsHeld ==
    IF apt.cmds = <<>>
    THEN \A stream \in Streams : files[<<"local", stream>>] = NoFile
    ELSE /\ \A stream \in Streams :
               files[<<"local", stream>>]
                   = Written([k \in 1..Len(apt.cmds) |-> AptOutput(apt.cmds[k])])
         /\ apt.cmds = (IF apt.outputs[1].status = "nonzero" THEN <<"update">>
                        ELSE <<"update", "upgrade">>)

\* no name occurs twice in the list of remotes, and none is "local"
DistinctRemotes ==
    /\ \A i, j \in 1..Len(remotes) : i # j => remotes[i] # remotes[j]
    /\ \A i \in 1..Len(remotes) : remotes[i] # "local"

\* C13 as stated: after a run with logging in which every write succeeded,
\* every target's two files hold that target's captured streams and the
\* local files hold the outputs of the local commands attempted.
C13_EveryLogHeld ==
    RunLoggedOk => (RemoteLogsHeld /\ LocalLogsHeld)

\* C13 amended: the same, for a list of remotes in which no name occurs twice
\* and none is "local" (two entries of one name, or a remote named "local",
\* share their files and the later write replaces the earlier one).
C13_EveryLogHeldForDistinctRemotes ==
    (RunLoggedOk /\ DistinctRemotes) => (RemoteLogsHeld /\ LocalLogsHeld)

C13_Witness ==
    /\ RunLoggedOk
    /\ DistinctRemotes
    /\ Len(tasks) >= 2
    /\ apt.cmds = <<"update", "upgrade">>

\* C14: main awaits nothing before every entry of the list has its unit (the
\* fan-in starts with all units spawned), the dispatch of the next unit is
\* enabled whatever the state of the units spawned before it, and a spawned
\* unit can start whatever the state of the others.
C14_EagerDispatch ==
    /\ (pc = "await" \/ awaited > 0 \/ SummaryPrinted) => Len(tasks) = Len(remotes)
    /\ pc = "spawn" => awaited = 0
    /\ (pc = "spawn" /\ Len(tasks) < Len(remotes)) => ENABLED Spawn
    /\ \A i \in 1..Len(tasks) :
          (tasks[i].st = "spawned" /\ RuntimeAlive) => ENABLED UnitStart(i)

\* every unit of a list of three is in flight before main waits on any
C14_Witness ==
    /\ pc = "spawn"
    /\ Len(remotes) >= 3
    /\ Len(tasks) = Len(remotes)
    /\ \A i \in 1..Len(tasks) : tasks[i].st = "ssh"

IsPrefix(p, q) == Len(p) <= Len(q) /\ \A k \in 1..Len(p) : p[k] = q[k]

\* the steps of a unit that runs to its return, in the order claimed: the
\* started message, the invocation between its two timestamps, the logging
\* (with a log directory), the duration, the finished message with the
\* verdict, the increment of `overall`
ClaimedOrder(logging, status) ==
    <<"set_message", "start_ts", "ssh_spawn", "ssh_output", "end_ts">>
    \o (IF logging THEN <<"log_stdout", "log_stderr">> ELSE <<>>)
    \o <<"duration",
         IF status = "success" THEN "finished_succeeded" ELSE "finished_failed",
         "inc">>

\* C15: at every moment the steps a unit has taken are an initial part of
\* the claimed order (ended by the failed write if its logging failed), a
\* unit that returned Ok has taken all of them, and the finished message
\* carries the verdict of the exit status.
C15_UnitStepOrder ==
    \A i \in 1..Len(tasks) :
        LET u == tasks[i]
            c == ClaimedOrder(log_dir = "Some", u.status)
            n == Len(u.events)
        IN  IF u.res = "LogWriteError"
            THEN /\ n >= 1
                 /\ u.events[n] = "log_error"
                 /\ IsPrefix(SubSeq(u.events, 1, n - 1), c)
                 /\ n - 1 \in {5, 6}
            ELSE /\ IsPrefix(u.events, c)
                 /\ (u.res = "Ok") <=> (u.events = c)
                 /\ u.st = "ssh" => n = 3
                 /\ u.res = "TransportError" => n = 3
                 /\ u.st \in {"log_stdout", "log_stderr"} => n \in {5, 6}

C15_Witness ==
    \E i \in 1..Len(tasks) :
        /\ tasks[i].res = "Ok"
        /\ tasks[i].status = "nonzero"
        /\ tasks[i].events =
              <<"set_message", "start_ts", "ssh_spawn", "ssh_output", "end_ts",
                "log_stdout", "log_stderr", "duration", "finished_failed", "inc">>

\* a pre-run setup error: the configuration was not read or parsed (line
\* 126), or the log directory was not created (line 137)
SetupFailed == ret = "ConfigError" \/ pc = "panicked" \/ exit_code = 101

\* C16: after a setup error main is over, with a non-zero exit status, and
\* no unit was dispatched, no bar was made, no local command was invoked, no
\* summary was printed and no log file was made.
C16_SetupErrorsFatal ==
    SetupFailed =>
        /\ pc \in {"returned", "panicked", "exited"}
        /\ tasks = <<>>
        /\ apt.cmds = <<>>
        /\ reporter = <<>>
        /\ summary = <<>>
        /\ \A f \in LogFiles : ~files[f].exists
        /\ Exited => exit_code \in {1, 101}

C16_Witness == Exited /\ ret = "ConfigError" /\ exit_code = 1

C16_WitnessPanic == Exited /\ exit_code = 101 /\ ret # "ConfigError"

\* the invocation of unit i has not returned: the unit waits at line 60, or
\* was dropped there when the runtime shut down
InvocationPending(i) ==
    \/ tasks[i].st = "ssh"
    \/ tasks[i].st = "cancelled" /\ Len(tasks[i].events) = 3

\* while an invocation has not returned, no summary and no local command
NoSummaryNoLocalWhilePending ==
    (\E i \in 1..Len(tasks) : InvocationPending(i)) =>
        summary = <<>> /\ apt.cmds = <<>>

\* C17: while a dispatched invocation has not returned the run goes no
\* further: no summary, no local command, and main neither returns nor does
\* the process exit.
C17_HungInvocationHangsRun ==
    (\E i \in 1..Len(tasks) : InvocationPending(i)) =>
        /\ summary = <<>>
        /\ apt.cmds = <<>>
        /\ pc \notin {"returned", "exited"}

\* the units that reported themselves finished (line 70)
FinishedReported ==
    {i \in 1..Len(tasks) :
        \E k \in 1..Len(tasks[i].events) :
            tasks[i].events[k] \in {"finished_succeeded", "finished_failed"}}

\* C18: under every interleaving of the units `overall` is the number of
\* units that finished, each having incremented it once; it never exceeds
\* the number of targets and equals it when the summary is printed; `failed`
\* holds one entry per awaited unit whose command did not succeed.
C18_NoLostUpdate ==
    /\ \A i \in 1..Len(tasks) :
          Occ(tasks[i].events, "inc") = (IF tasks[i].res = "Ok" THEN 1 ELSE 0)
    /\ FinishedReported = {i \in 1..Len(tasks) : tasks[i].res = "Ok"}
    /\ overall = Cardinality(FinishedReported)
    /\ overall <= Len(remotes)
    /\ SummaryPrinted => overall = Len(remotes)
    /\ Len(failed) = Cardinality({i \in 1..awaited : tasks[i].status = "nonzero"})
    /\ SummaryPrinted =>
          /\ Len(failed) = Cardinality(EntriesWith("nonzero"))
          /\ failed = FailedInDispatchOrder

C18_Witness ==
    /\ SummaryPrinted
    /\ reversed
    /\ Len(remotes) = 3
    /\ overall = 3
    /\ Len(failed) = 2

\* main is past the remote phase: it ran none, or printed the summary
RemotePhaseOver ==
    /\ ~SetupFailed
    /\ pc \notin {"init", "log_dir", "mode", "spawn", "await"}
    /\ tasks # <<>> => SummaryPrinted

\* main is past the test of line 200
LocalDecided == RemotePhaseOver /\ pc # "local_gate"

\* C19: with --local-only no unit is dispatched and no bar is made, whatever
\* remotes the arguments or the configuration hold; with --skip-local no
\* local command is invoked; without it the local step starts once the
\* remote phase is over, whatever the exit statuses of the remotes were, and
\* only then.
C19_ModeFlags ==
    /\ args.local_only => tasks = <<>> /\ remotes = <<>> /\ reporter = <<>>
    /\ args.skip_local => apt.cmds = <<>>
    /\ apt.cmds # <<>> => RemotePhaseOver
    /\ LocalDecided => (args.skip_local <=> apt.cmds = <<>>)

C19_Witness ==
    /\ args.local_only
    /\ args.remotes # NoneV
    /\ config.remotes # <<>>
    /\ apt.cmds # <<>>
    /\ Exited

\* the local step after a remote phase with failed remotes
C19_WitnessFailedRemotes ==
    /\ ~args.local_only
    /\ failed # <<>>
    /\ apt.cmds = <<"update", "upgrade">>

\* --skip-local after a remote phase
C19_WitnessSkipLocal ==
    /\ args.skip_local
    /\ SummaryPrinted
    /\ Exited

\* the handles awaited so far are the first `awaited` of the dispatch order,
\* and the local step starts only after the last of them
AwaitedInDispatchOrder ==
    /\ awaited <= Len(tasks)
    /\ \A i \in 1..awaited : tasks[i].st = "returned" /\ tasks[i].res = "Ok"
    /\ apt.cmds # <<>> => awaited = Len(tasks)

\* pupdate_apt ran at most once: at most one update, then at most one upgrade
LocalAtMostOnce == IsPrefix(apt.cmds, <<"update", "upgrade">>)

\* C20: when every invocation returns and every ready unit is polled, the
\* process eventually exits, having awaited handles in dispatch order and
\* run the local step at most once.
C20_Terminates == <>(Exited /\ AwaitedInDispatchOrder /\ LocalAtMostOnce)

\* the safety half of C20, in every state
C20_OrderAndOnce == AwaitedInDispatchOrder /\ LocalAtMostOnce

C20_Witness ==
    /\ Exited
    /\ exit_code = 0
    /\ Len(tasks) = 3
    /\ awaited = 3
    /\ reversed
    /\ apt.cmds = <<"update", "upgrade">>

====
